---- MODULE Spec2Model ----
(***************************************************************************)
(* Model of the pattern detection engine and the Gann level calculator of  *)
(* the stock analyzer: PatternDetector (src/main.py, the single-pattern    *)
(* variant, and src/data_fetcher.py, the multi-pattern variant) and        *)
(* calculate_gann_levels (src/data_fetcher.py).                            *)
(*                                                                         *)
(* A price is an integer number of price units.  A float computed by the   *)
(* program is a record [nan, e]: nan says the value is NaN, otherwise the  *)
(* value is e/8 price units, so that the eighths the level formula makes   *)
(* are exact.  A bar series (a DataFrame) is a sequence of bars            *)
(* [Date, High, Low]; position p of the program (0-based, iloc) is element *)
(* p+1 of the sequence.  A Python dict is a function on its set of keys.   *)
(***************************************************************************)
EXTENDS Integers, Sequences, FiniteSets

(* ---------------------------- bounds ----------------------------------- *)
MaxLen == 5
MaxPrice == 4
MaxReq == 2
FirstDate == 11

(* ------------------------- program constants --------------------------- *)
available_patterns ==
    << "Head and Shoulders", "Inverted Head and Shoulders", "Double Top",
       "Double Bottom", "Bullish Engulfing", "Bearish Engulfing", "Doji",
       "Hammer", "Shooting Star", "Morning Star", "Evening Star" >>

HS == "Head and Shoulders"
IHS == "Inverted Head and Shoulders"

\* A pattern name that is not in the catalog, and the empty selection of
\* the combobox.
UnknownKind == "Triple Top"
NoKind == ""

Range(s) == { s[j] : j \in 1..Len(s) }

Catalog == Range(available_patterns)

\* The methods class PatternDetector defines in src/data_fetcher.py.
DefinedMethods == { "detect_patterns", "detect_head_and_shoulders" }

\* The method each branch of detect_patterns calls (src/data_fetcher.py).
MethodOf(kind) ==
    CASE kind = "Head and Shoulders" -> "detect_head_and_shoulders"
      [] kind = "Inverted Head and Shoulders" -> "detect_inverted_head_and_shoulders"
      [] kind = "Double Top" -> "detect_double_top"
      [] kind = "Double Bottom" -> "detect_double_bottom"
      [] kind = "Bullish Engulfing" -> "detect_bullish_engulfing"
      [] kind = "Bearish Engulfing" -> "detect_bearish_engulfing"
      [] kind = "Doji" -> "detect_doji"
      [] kind = "Hammer" -> "detect_hammer"
      [] kind = "Shooting Star" -> "detect_shooting_star"
      [] kind = "Morning Star" -> "detect_morning_star"
      [] kind = "Evening Star" -> "detect_evening_star"
      [] OTHER -> "none"

(* ------------------------------ floats --------------------------------- *)
NumLevels == 8

NaN == [nan |-> TRUE, e |-> 0]
Price(p) == [nan |-> FALSE, e |-> p * NumLevels]
FAdd(a, b) == IF a.nan \/ b.nan THEN NaN ELSE [nan |-> FALSE, e |-> a.e + b.e]
FSub(a, b) == IF a.nan \/ b.nan THEN NaN ELSE [nan |-> FALSE, e |-> a.e - b.e]
FMulInt(a, n) == IF a.nan THEN NaN ELSE [nan |-> FALSE, e |-> a.e * n]
FDivInt(a, n) == IF a.nan THEN NaN ELSE [nan |-> FALSE, e |-> a.e \div n]
FLess(a, b) == ~a.nan /\ ~b.nan /\ a.e < b.e

(* --------------------------- the bar series ---------------------------- *)
\* data['High'].iloc[i], data['Low'].iloc[i], data.index[i] (0-based).
High(data, i) == data[i + 1].High
Low(data, i) == data[i + 1].Low
Index(data, i) == data[i + 1].Date

(* ------------------- PatternDetector, src/data_fetcher.py -------------- *)
\* The test of one index i of the scan: left_shoulder and head and
\* right_shoulder.
hs_match_nohead(data, i) ==
    /\ High(data, i - 2) < High(data, i - 1) /\ High(data, i - 1) < High(data, i)
    /\ High(data, i + 1) < High(data, i + 2) /\ High(data, i + 2) < High(data, i)

hs_match_peak(data, i) ==
    /\ High(data, i - 2) < High(data, i - 1) /\ High(data, i - 1) < High(data, i)
    /\ High(data, i) > High(data, i + 1) /\ High(data, i + 1) > High(data, i + 2)

hs_match(data, i) ==
    LET left_shoulder == High(data, i - 2) < High(data, i - 1)
                         /\ High(data, i - 1) < High(data, i)
        head == High(data, i - 1) > High(data, i + 1)
        right_shoulder == High(data, i + 1) < High(data, i + 2)
                          /\ High(data, i + 2) < High(data, i)
    IN  left_shoulder /\ head /\ right_shoulder

\* The tuple appended for a match at i.
hs_tuple(data, i) == << Index(data, i), "Head and Shoulders", High(data, i) >>

\* for i in range(2, len(data) - 2), from position i on, patterns so far.
RECURSIVE hs_scan(_, _, _)
hs_scan(data, i, patterns) ==
    IF i >= Len(data) - 2 THEN patterns
    ELSE hs_scan(data, i + 1,
                 IF hs_match(data, i) THEN Append(patterns, hs_tuple(data, i))
                 ELSE patterns)

\* The scan run from the last position down to the first.
RECURSIVE hs_scan_down(_, _, _)
hs_scan_down(data, i, patterns) ==
    IF i < 2 THEN patterns
    ELSE hs_scan_down(data, i - 1,
                      IF hs_match(data, i) THEN Append(patterns, hs_tuple(data, i))
                      ELSE patterns)

detect_head_and_shoulders_reversed(data) == hs_scan_down(data, Len(data) - 3, << >>)

detect_head_and_shoulders(data) == hs_scan(data, 2, << >>)

\* dicts: the empty dict and patterns[key] = value.
EmptyDict == [k \in {} |-> << >>]
DictSet(d, key, value) ==
    [k \in (DOMAIN d) \cup {key} |-> IF k = key THEN value ELSE d[k]]

\* What a call comes to: it returns ("ok") with its dict, or an exception
\* leaves it and nothing is returned.
Returned(d) == [outcome |-> "ok", patterns |-> d]
Raised(exc) == [outcome |-> exc, patterns |-> EmptyDict]

\* for selected_pattern in selected_patterns, from element j on.  A branch
\* whose method the class does not define raises AttributeError; a name
\* that matches no branch is passed over.
RECURSIVE detect_loop_strict(_, _, _, _)
detect_loop_strict(data, selected_patterns, j, patterns) ==
    IF j > Len(selected_patterns) THEN Returned(patterns)
    ELSE LET selected_pattern == selected_patterns[j] IN
         IF selected_pattern = "Head and Shoulders"
         THEN detect_loop_strict(data, selected_patterns, j + 1,
                  DictSet(patterns, selected_pattern, detect_head_and_shoulders(data)))
         ELSE IF selected_pattern \in Catalog
         THEN Raised("AttributeError")
         ELSE Raised("ValueError")

detect_patterns_strict(data, selected_patterns) ==
    detect_loop_strict(data, selected_patterns, 1, EmptyDict)

RECURSIVE detect_loop(_, _, _, _)
detect_loop(data, selected_patterns, j, patterns) ==
    IF j > Len(selected_patterns) THEN Returned(patterns)
    ELSE LET selected_pattern == selected_patterns[j] IN
         IF MethodOf(selected_pattern) = "none"
         THEN detect_loop(data, selected_patterns, j + 1, patterns)
         ELSE IF MethodOf(selected_pattern) \notin DefinedMethods
         THEN Raised("AttributeError")
         ELSE detect_loop(data, selected_patterns, j + 1,
                  DictSet(patterns, selected_pattern, detect_head_and_shoulders(data)))

detect_patterns(data, selected_patterns) ==
    detect_loop(data, selected_patterns, 1, EmptyDict)

(* --------------------- PatternDetector, src/main.py -------------------- *)
main_hs_match(data, i) ==
    LET left_shoulder == High(data, i - 2) < High(data, i - 1)
                         /\ High(data, i - 1) < High(data, i)
        head == High(data, i - 1) > High(data, i + 1)
        right_shoulder == High(data, i + 1) < High(data, i + 2)
                          /\ High(data, i + 2) < High(data, i)
    IN  left_shoulder /\ head /\ right_shoulder

RECURSIVE main_hs_scan(_, _, _)
main_hs_scan(data, i, patterns) ==
    IF i >= Len(data) - 2 THEN patterns
    ELSE main_hs_scan(data, i + 1,
             IF main_hs_match(data, i)
             THEN Append(patterns, << Index(data, i), "Head and Shoulders", High(data, i) >>)
             ELSE patterns)

main_detect_head_and_shoulders(data) == main_hs_scan(data, 2, << >>)

\* patterns = []; extended only when the one selected pattern is Head and
\* Shoulders.
main_detect_patterns(data, selected_pattern) ==
    IF selected_pattern = "Head and Shoulders"
    THEN main_detect_head_and_shoulders(data)
    ELSE << >>

(* ------------------------ calculate_gann_levels ------------------------ *)
\* pandas Series.max() and Series.min(): NaN on a column without rows.
RECURSIVE col_max(_, _)
col_max(data, n) ==
    IF n = 1 THEN data[1].High
    ELSE LET m == col_max(data, n - 1) IN IF data[n].High > m THEN data[n].High ELSE m

RECURSIVE col_min(_, _)
col_min(data, n) ==
    IF n = 1 THEN data[1].Low
    ELSE LET m == col_min(data, n - 1) IN IF data[n].Low < m THEN data[n].Low ELSE m

high_max(data) == IF Len(data) = 0 THEN NaN ELSE Price(col_max(data, Len(data)))

low_min(data) == IF Len(data) = 0 THEN NaN ELSE Price(col_min(data, Len(data)))

gann_levels_from0(data) ==
    LET max_price == high_max(data)
        min_price == low_min(data)
        range_price == FSub(max_price, min_price)
    IN  [i \in 1..NumLevels |->
            FAdd(min_price, FDivInt(FMulInt(range_price, i - 1), NumLevels))]

gann_levels_swapped(data) ==
    LET max_price == high_max(data)
        min_price == low_min(data)
        range_price == FSub(min_price, max_price)
    IN  [i \in 1..NumLevels |->
            FAdd(min_price, FDivInt(FMulInt(range_price, i), NumLevels))]

gann_levels_guarded(data) ==
    IF Len(data) = 0 THEN << >>
    ELSE LET max_price == high_max(data)
             min_price == low_min(data)
             range_price == FSub(max_price, min_price)
         IN  [i \in 1..NumLevels |->
                 FAdd(min_price, FDivInt(FMulInt(range_price, i), NumLevels))]

calculate_gann_levels(data) ==
    LET max_price == high_max(data)
        min_price == low_min(data)
        range_price == FSub(max_price, min_price)
    IN  [i \in 1..NumLevels |->
            FAdd(min_price, FDivInt(FMulInt(range_price, i), NumLevels))]

(* ------------------------------ the state ------------------------------ *)
VARIABLES
    series,         \* the bar series the calls are given
    pc,             \* "idle", or the call that was made
    selected,       \* the pattern names the call was given
    outcome,        \* "none", "ok" or the exception that left the call
    patterns,       \* the dict detect_patterns of data_fetcher.py returned
    main_patterns,  \* the list detect_patterns of main.py returned
    gann_levels,    \* the list calculate_gann_levels returned
    previous,       \* what the call before the last one came to
    app             \* what the handlers of StockAnalyzerApp did and showed

vars == << series, pc, selected, outcome, patterns, main_patterns, gann_levels,
           previous, app >>

\* Daily bars from FirstDate on; every bar has Low <= High.
MkSeries(highs, spread) ==
    [p \in 1..Len(highs) |->
        [Date |-> FirstDate + p - 1, High |-> highs[p], Low |-> highs[p] - spread]]

SeqsUpTo(S, n) == UNION { [1..m -> S] : m \in 0..n }

GeneratedSeries ==
    { MkSeries(h, sp) : h \in SeqsUpTo(1..MaxPrice, MaxLen), sp \in 0..1 }

\* The series of the documented examples.
ExampleHS == MkSeries(<< 10, 12, 15, 13, 11 >>, 1)
ExampleIHS == MkSeries(<< 16, 14, 11, 13, 15 >>, 1)
ExampleGann == MkSeries(<< 150, 200, 101 >>, 1)
ExampleDip == MkSeries(<< 10, 12, 15, 11, 13 >>, 1)
\* A series long enough for two heads, at positions 2 and 5.
ExampleTwoHeads == MkSeries(<< 1, 2, 4, 1, 2, 4, 1, 3 >>, 1)

AllSeries ==
    GeneratedSeries \cup
    { ExampleHS, ExampleIHS, ExampleGann, ExampleDip, ExampleTwoHeads }

\* The names a caller may pass: the catalog, a name outside it, and for
\* main.py the empty selection.
KindOrder == available_patterns \o << UnknownKind >>

\* The names requests of several patterns are made of: the implemented
\* kind, its mirror, one more catalog kind and the name outside the catalog,
\* in the order of the checkboxes.
ReqNames == << HS, IHS, "Doji", UnknownKind >>

RECURSIVE InOrder(_, _)
InOrder(S, n) ==
    IF n = 0 THEN << >>
    ELSE IF n \in S THEN Append(InOrder(S, n - 1), ReqNames[n])
    ELSE InOrder(S, n - 1)

Requests ==
    { << k >> : k \in Range(KindOrder) } \cup
    { InOrder(S, Len(ReqNames)) :
        S \in { T \in SUBSET (1..Len(ReqNames)) : Cardinality(T) <= MaxReq } }

MainInputs == Range(KindOrder) \cup { NoKind }

\* The application before any handler ran: nothing shown, fetched, detected
\* or written.
NoApp ==
    [ tickers |-> << >>, errors |-> << >>, infos |-> << >>,
      fetch_started |-> FALSE, data |-> << >>, calls |-> << >>,
      file_open |-> FALSE, header |-> << >>, rows |-> << >>,
      status |-> "", charts |-> 0, thread |-> "none", show_gann |-> FALSE ]

\* No call was made before.
NoCall == [outcome |-> "none", patterns |-> EmptyDict, main_patterns |-> << >>]

Init ==
    /\ series \in AllSeries
    /\ pc = "idle"
    /\ selected = << >>
    /\ outcome = "none"
    /\ patterns = EmptyDict
    /\ main_patterns = << >>
    /\ gann_levels = << >>
    /\ previous = NoCall
    /\ app = NoApp

\* PatternDetector().detect_patterns(data, selected_patterns), data_fetcher.py
DetectPatterns(req) ==
    /\ pc = "idle"
    /\ LET r == detect_patterns(series, req) IN
        /\ outcome' = r.outcome
        /\ patterns' = r.patterns
    /\ pc' = "detect"
    /\ selected' = req
    /\ UNCHANGED << series, main_patterns, gann_levels, previous, app >>

\* PatternDetector().detect_patterns(data, selected_pattern), main.py
MainDetectPatterns(kind) ==
    /\ pc = "idle"
    /\ main_patterns' = main_detect_patterns(series, kind)
    /\ outcome' = "ok"
    /\ pc' = "main_detect"
    /\ selected' = << kind >>
    /\ UNCHANGED << series, patterns, gann_levels, previous, app >>

\* calculate_gann_levels(data)
CalculateGannLevels ==
    /\ pc = "idle"
    /\ gann_levels' = calculate_gann_levels(series)
    /\ outcome' = "ok"
    /\ pc' = "gann"
    /\ UNCHANGED << series, selected, patterns, main_patterns, previous, app >>

\* The same call made once more on the same series, by a new
\* PatternDetector() as every call is (data_fetcher.py).
DetectAgain ==
    /\ pc = "detect"
    /\ previous' = [outcome |-> outcome, patterns |-> patterns,
                    main_patterns |-> main_patterns]
    /\ LET r == detect_patterns(series, selected) IN
        /\ outcome' = r.outcome
        /\ patterns' = r.patterns
    /\ pc' = "detect_again"
    /\ UNCHANGED << series, selected, main_patterns, gann_levels, app >>

\* The same for main.py.
MainDetectAgain ==
    /\ pc = "main_detect"
    /\ previous' = [outcome |-> outcome, patterns |-> patterns,
                    main_patterns |-> main_patterns]
    /\ main_patterns' = main_detect_patterns(series, selected[1])
    /\ outcome' = "ok"
    /\ pc' = "main_detect_again"
    /\ UNCHANGED << series, selected, patterns, gann_levels, app >>

Next ==
    \/ \E req \in Requests : DetectPatterns(req)
    \/ \E kind \in MainInputs : MainDetectPatterns(kind)
    \/ DetectAgain
    \/ MainDetectAgain
    \/ CalculateGannLevels

Spec == Init /\ [][Next]_vars

(* --------------------------- StockAnalyzerApp --------------------------- *)
\* What yf.download gives for a ticker: the series under study for AAPL, a
\* fixed series for MSFT, no rows for anything else.
Market(ticker) ==
    IF ticker = "AAPL" THEN series
    ELSE IF ticker = "MSFT" THEN ExampleDip
    ELSE << >>

\* self.ticker_entry.get().strip().split(','): the text of the entry, as the
\* list of its comma-separated parts.
TickerEntries == { << "" >>, << "AAPL" >>, << "AAPL", "MSFT" >> }

\* if not tickers or all(ticker.strip() == "" for ticker in tickers)
no_ticker(tickers) ==
    Len(tickers) = 0 \/ \A j \in 1..Len(tickers) : tickers[j] = ""

\* The selections the checkboxes can make: sublists of the catalog, here of
\* its first names.
GuiSelections ==
    { InOrder(S, Len(ReqNames)) :
        S \in { T \in SUBSET (1..3) : Cardinality(T) <= MaxReq } }

Filenames == { "", "out.csv" }

InputErrorTicker == << "Input Error", "Please enter at least one ticker symbol." >>
InputErrorPattern == << "Input Error", "Please select at least one pattern." >>
ExportSuccessful == << "Export Successful", "Results exported successfully." >>
CsvHeader == << "Ticker", "Pattern", "Date", "Price" >>

\* fetch_data: the tickers with data, in the order of the dict, and the
\* errors shown for the others (after the last attempt).
RECURSIVE fetch_loop(_, _, _, _)
fetch_loop(tickers, j, data, errors) ==
    IF j > Len(tickers) THEN [data |-> data, errors |-> errors]
    ELSE LET ticker == tickers[j] IN
         IF Market(ticker) = << >>
         THEN fetch_loop(tickers, j + 1, data,
                         Append(errors, << "Data Error", ticker >>))
         ELSE fetch_loop(tickers, j + 1,
                         IF ticker \in Range(data) THEN data ELSE Append(data, ticker),
                         errors)

fetch_data(tickers) == fetch_loop(tickers, 1, << >>, << >>)

\* pattern_info[0].strftime('%Y-%m-%d') of a timestamp.
strftime(date) == << "%Y-%m-%d", date >>

\* The loop of export_results of data_fetcher.py over data.items(), from
\* ticker j on.  patterns is the dict detect_patterns returned, so "for
\* pattern_info in patterns" runs over its keys: pattern_info is a str, and
\* pattern_info[0].strftime raises AttributeError for the first key.
RECURSIVE export_loop(_, _, _, _)
export_loop(data, j, selected_patterns, acc) ==
    IF j > Len(data) THEN acc
    ELSE LET ticker == data[j]
             r == detect_patterns(Market(ticker), selected_patterns)
             calls == Append(acc.calls, [ticker |-> ticker, selected |-> selected_patterns])
         IN  IF r.outcome # "ok"
             THEN [rows |-> acc.rows, calls |-> calls, outcome |-> r.outcome]
             ELSE IF DOMAIN r.patterns # {}
             THEN [rows |-> acc.rows, calls |-> calls, outcome |-> "AttributeError"]
             ELSE export_loop(data, j + 1, selected_patterns,
                              [rows |-> acc.rows, calls |-> calls, outcome |-> "ok"])

\* The row main.py writes for a tuple of the list.
main_row(ticker, pattern_info) ==
    << ticker, pattern_info[2], strftime(pattern_info[1]), pattern_info[3] >>

\* The loop of export_results of main.py, from ticker j on.
RECURSIVE main_export_loop(_, _, _, _)
main_export_loop(data, j, selected_pattern, acc) ==
    IF j > Len(data) THEN acc
    ELSE LET ticker == data[j]
             found == main_detect_patterns(Market(ticker), selected_pattern)
         IN  main_export_loop(data, j + 1, selected_pattern,
                 [rows |-> acc.rows \o [k \in 1..Len(found) |-> main_row(ticker, found[k])],
                  calls |-> Append(acc.calls,
                                   [ticker |-> ticker, selected |-> << selected_pattern >>]),
                  outcome |-> "ok"])

NoRows == [rows |-> << >>, calls |-> << >>, outcome |-> "ok"]

\* The dict comprehension of run_analysis of data_fetcher.py, from ticker j
\* on: one detect_patterns call per ticker, ended by the first that raises.
RECURSIVE analysis_loop(_, _, _, _)
analysis_loop(data, j, selected_patterns, calls) ==
    IF j > Len(data) THEN [calls |-> calls, outcome |-> "ok"]
    ELSE LET r == detect_patterns(Market(data[j]), selected_patterns)
             now == Append(calls, [ticker |-> data[j], selected |-> selected_patterns])
         IN  IF r.outcome # "ok" THEN [calls |-> now, outcome |-> r.outcome]
             ELSE analysis_loop(data, j + 1, selected_patterns, now)

\* export_results of data_fetcher.py
ExportResults(tickers, selected_patterns, filename) ==
    /\ pc = "idle"
    /\ pc' = "export"
    /\ selected' = selected_patterns
    /\ IF no_ticker(tickers)
       THEN /\ app' = [app EXCEPT !.tickers = tickers, !.errors = << InputErrorTicker >>]
            /\ outcome' = "ok"
       ELSE LET f == fetch_data(tickers)
                fetched == [app EXCEPT !.tickers = tickers, !.fetch_started = TRUE,
                                       !.data = f.data, !.errors = f.errors]
            IN  IF f.data = << >> \/ filename = ""
                THEN app' = fetched /\ outcome' = "ok"
                ELSE LET e == export_loop(f.data, 1, selected_patterns, NoRows) IN
                     /\ app' = [fetched EXCEPT !.file_open = TRUE,
                                   !.header = CsvHeader, !.rows = e.rows,
                                   !.calls = e.calls,
                                   !.infos = IF e.outcome = "ok"
                                             THEN << ExportSuccessful >> ELSE << >>]
                     /\ outcome' = e.outcome
    /\ UNCHANGED << series, patterns, main_patterns, gann_levels, previous >>

\* export_results of main.py
MainExportResults(tickers, selected_pattern, filename) ==
    /\ pc = "idle"
    /\ pc' = "main_export"
    /\ selected' = << selected_pattern >>
    /\ outcome' = "ok"
    /\ IF no_ticker(tickers)
       THEN app' = [app EXCEPT !.tickers = tickers, !.errors = << InputErrorTicker >>]
       ELSE LET f == fetch_data(tickers)
                fetched == [app EXCEPT !.tickers = tickers, !.fetch_started = TRUE,
                                       !.data = f.data, !.errors = f.errors]
            IN  IF f.data = << >> \/ filename = ""
                THEN app' = fetched
                ELSE LET e == main_export_loop(f.data, 1, selected_pattern, NoRows) IN
                     app' = [fetched EXCEPT !.file_open = TRUE,
                                !.header = CsvHeader, !.rows = e.rows,
                                !.calls = e.calls, !.infos = << ExportSuccessful >>]
    /\ UNCHANGED << series, patterns, main_patterns, gann_levels, previous >>

\* analyze_stock of data_fetcher.py, up to the start of the thread
AnalyzeStock(tickers, selected_patterns, show_gann_levels) ==
    /\ pc = "idle"
    /\ pc' = "analyze"
    /\ selected' = selected_patterns
    /\ outcome' = "ok"
    /\ IF no_ticker(tickers)
       THEN app' = [app EXCEPT !.tickers = tickers, !.errors = << InputErrorTicker >>]
       ELSE IF selected_patterns = << >>
       THEN app' = [app EXCEPT !.tickers = tickers, !.errors = << InputErrorPattern >>]
       ELSE app' = [app EXCEPT !.tickers = tickers, !.status = "Analyzing...",
                               !.show_gann = show_gann_levels, !.thread = "started"]
    /\ UNCHANGED << series, patterns, main_patterns, gann_levels, previous >>

\* run_analysis of data_fetcher.py, the body of the thread
RunAnalysis ==
    /\ pc = "analyze"
    /\ app.thread = "started"
    /\ pc' = "analysis"
    /\ LET f == fetch_data(app.tickers)
           fetched == [app EXCEPT !.fetch_started = TRUE, !.data = f.data,
                                  !.errors = f.errors, !.thread = "ended"]
       IN  IF f.data = << >>
           THEN app' = fetched /\ outcome' = "ok" /\ gann_levels' = gann_levels
           ELSE LET a == analysis_loop(f.data, 1, selected, << >>) IN
                IF a.outcome # "ok"
                THEN /\ app' = [fetched EXCEPT !.calls = a.calls]
                     /\ outcome' = a.outcome
                     /\ gann_levels' = gann_levels
                ELSE /\ app' = [fetched EXCEPT !.calls = a.calls, !.charts = 1,
                                   !.status = "Analysis complete"]
                     /\ outcome' = "ok"
                     /\ gann_levels' = IF app.show_gann
                                       THEN calculate_gann_levels(Market(f.data[Len(f.data)]))
                                       ELSE gann_levels
    /\ UNCHANGED << series, selected, patterns, main_patterns, previous >>

\* analyze_stock of main.py, up to the start of the thread
MainAnalyzeStock(tickers, selected_pattern) ==
    /\ pc = "idle"
    /\ pc' = "main_analyze"
    /\ selected' = << selected_pattern >>
    /\ outcome' = "ok"
    /\ IF no_ticker(tickers)
       THEN app' = [app EXCEPT !.tickers = tickers, !.errors = << InputErrorTicker >>]
       ELSE app' = [app EXCEPT !.tickers = tickers, !.status = "Analyzing...",
                               !.thread = "started"]
    /\ UNCHANGED << series, patterns, main_patterns, gann_levels, previous >>

\* run_analysis of main.py, the body of the thread
MainRunAnalysis ==
    /\ pc = "main_analyze"
    /\ app.thread = "started"
    /\ pc' = "main_analysis"
    /\ outcome' = "ok"
    /\ LET f == fetch_data(app.tickers)
           fetched == [app EXCEPT !.fetch_started = TRUE, !.data = f.data,
                                  !.errors = f.errors, !.thread = "ended"]
       IN  IF f.data = << >>
           THEN app' = fetched
           ELSE app' = [fetched EXCEPT
                           !.calls = [j \in 1..Len(f.data) |->
                                         [ticker |-> f.data[j], selected |-> selected]],
                           !.charts = 1, !.status = "Analysis complete"]
    /\ UNCHANGED << series, selected, patterns, main_patterns, gann_levels, previous >>

\* The series the market holds for AAPL: none, one without a match, one
\* with one match and one with two.
AppSeries == { << >>, ExampleHS, ExampleDip, ExampleTwoHeads }

InitApp ==
    /\ series \in AppSeries
    /\ pc = "idle"
    /\ selected = << >>
    /\ outcome = "none"
    /\ patterns = EmptyDict
    /\ main_patterns = << >>
    /\ gann_levels = << >>
    /\ previous = NoCall
    /\ app = NoApp

NextApp ==
    \/ \E tickers \in TickerEntries, sel \in GuiSelections, filename \in Filenames :
           ExportResults(tickers, sel, filename)
    \/ \E tickers \in TickerEntries, kind \in MainInputs, filename \in Filenames :
           MainExportResults(tickers, kind, filename)
    \/ \E tickers \in TickerEntries, sel \in GuiSelections, gann \in BOOLEAN :
           AnalyzeStock(tickers, sel, gann)
    \/ RunAnalysis
    \/ \E tickers \in TickerEntries, kind \in MainInputs :
           MainAnalyzeStock(tickers, kind)
    \/ MainRunAnalysis

SpecApp == InitApp /\ [][NextApp]_vars

(* ============================ properties ================================ *)
Positions == 0..(Len(series) - 1)

\* The Head and Shoulders lists the state holds: the one of the dict of
\* data_fetcher.py and the list of main.py, when that kind was asked for.
HSLists ==
    (IF pc = "detect" /\ outcome = "ok" /\ HS \in DOMAIN patterns
     THEN { patterns[HS] } ELSE {})
    \cup
    (IF pc = "main_detect" /\ selected = << HS >> THEN { main_patterns } ELSE {})

ReportedAt(list, i) == \E j \in 1..Len(list) : list[j][1] = Index(series, i)

C1_Shape(i) ==
    /\ 2 <= i /\ i <= Len(series) - 3
    /\ High(series, i - 2) < High(series, i - 1)
    /\ High(series, i - 1) < High(series, i)
    /\ High(series, i - 1) > High(series, i + 1)
    /\ High(series, i + 1) < High(series, i + 2)
    /\ High(series, i + 2) < High(series, i)

\* C1: detect_head_and_shoulders reports a match at index i if and only if
\* 2 <= i <= len-3 and High[i-2] < High[i-1] < High[i] and High[i-1] >
\* High[i+1] and High[i+1] < High[i+2] < High[i]; every match carries bar
\* i's timestamp, the label "Head and Shoulders" and the price High[i].
C1_HeadAndShouldersIff ==
    \A list \in HSLists :
        /\ \A i \in Positions : ReportedAt(list, i) <=> C1_Shape(i)
        /\ \A j \in 1..Len(list) : \E i \in Positions :
               list[j] = << Index(series, i), "Head and Shoulders", High(series, i) >>

\* A match at the head of a series, the other positions being passed over.
C1_Witness ==
    /\ pc = "detect" /\ outcome = "ok" /\ HS \in DOMAIN patterns
    /\ Len(patterns[HS]) >= 1
    /\ ReportedAt(patterns[HS], 2) /\ C1_Shape(2)
    /\ \E i \in Positions : ~ReportedAt(patterns[HS], i)

\* C2 as stated: Highs [10,12,15,13,11] with only Head and Shoulders
\* requested give exactly one match, at index 2 with anchor price 15.
C2_ExampleOneMatch ==
    (series = ExampleHS /\ pc = "detect" /\ selected = << HS >>) =>
        /\ outcome = "ok"
        /\ DOMAIN patterns = { HS }
        /\ patterns[HS] = << << Index(series, 2), "Head and Shoulders", 15 >> >>

\* C2 amended: Highs [10,12,15,13,11] with only Head and Shoulders requested
\* give no match, in the dict of data_fetcher.py and in the list of main.py.
C2_ExampleNoMatch ==
    /\ (series = ExampleHS /\ pc = "detect" /\ selected = << HS >>) =>
          /\ outcome = "ok"
          /\ DOMAIN patterns = { HS }
          /\ patterns[HS] = << >>
    /\ (series = ExampleHS /\ pc = "main_detect" /\ selected = << HS >>) =>
          main_patterns = << >>

C2_Witness == series = ExampleHS /\ pc = "detect" /\ selected = << HS >>

C3_Mirror(i) ==
    /\ 2 <= i /\ i <= Len(series) - 3
    /\ Low(series, i - 2) > Low(series, i - 1)
    /\ Low(series, i - 1) > Low(series, i)
    /\ Low(series, i - 1) < Low(series, i + 1)
    /\ Low(series, i + 1) > Low(series, i + 2)
    /\ Low(series, i + 2) > Low(series, i)

\* C3: requesting "Inverted Head and Shoulders" runs the mirror test on the
\* Lows and reports each match with the trough Low as anchor price; Lows
\* [15,13,10,12,14] give exactly one match, at index 2 with price 10.
C3_InvertedMirror ==
    (pc = "detect" /\ selected = << IHS >>) =>
        /\ outcome = "ok"
        /\ DOMAIN patterns = { IHS }
        /\ \A i \in Positions : ReportedAt(patterns[IHS], i) <=> C3_Mirror(i)
        /\ \A j \in 1..Len(patterns[IHS]) : \E i \in Positions :
               patterns[IHS][j] = << Index(series, i), IHS, Low(series, i) >>
        /\ series = ExampleIHS =>
               patterns[IHS] = << << Index(series, 2), IHS, 10 >> >>

\* lookback + lookahead + 1 of a kind: 5 for Head and Shoulders and its
\* mirror; no rule has a window of less than one bar.
C4_Window(kind) == IF kind \in { HS, IHS } THEN 5 ELSE 1

\* C4: for each of the 11 kinds and every series shorter than the kind's
\* window, detect_patterns returns normally with no match for that kind.
C4_ShortSeriesNoMatch ==
    /\ pc = "detect" =>
          \A kind \in Range(selected) \cap Catalog :
              Len(series) < C4_Window(kind) =>
                  /\ outcome = "ok"
                  /\ kind \in DOMAIN patterns
                  /\ patterns[kind] = << >>
    /\ (pc = "main_detect" /\ selected[1] \in Catalog
        /\ Len(series) < C4_Window(selected[1])) =>
          outcome = "ok" /\ main_patterns = << >>

\* C5: for a non-empty series and a non-empty request of catalog kinds, the
\* keys of the returned mapping are exactly the requested kinds.
C5_KeysAreRequested ==
    (pc = "detect" /\ series # << >> /\ selected # << >>
     /\ Range(selected) \subseteq Catalog) =>
        outcome = "ok" /\ DOMAIN patterns = Range(selected)

InCatalog(kind) == kind \in Catalog

MinLow ==
    CHOOSE m \in { Low(series, i) : i \in Positions } :
        \A i \in Positions : m <= Low(series, i)
MaxHigh ==
    CHOOSE m \in { High(series, i) : i \in Positions } :
        \A i \in Positions : m >= High(series, i)

\* C8: for a non-empty series calculate_gann_levels returns exactly 8
\* levels, level_i = min + i*(max-min)/8 (in eighths: 8*min + i*(max-min)),
\* the last one equal to max; Lows and Highs spanning [100,200] give 112.5,
\* 125, 137.5, 150, 162.5, 175, 187.5, 200.
C8_GannLevels ==
    (pc = "gann" /\ series # << >>) =>
        /\ Len(gann_levels) = 8
        /\ \A i \in 1..8 :
               /\ ~gann_levels[i].nan
               /\ gann_levels[i].e = 8 * MinLow + i * (MaxHigh - MinLow)
        /\ gann_levels[8] = Price(MaxHigh)
        /\ (MinLow = 100 /\ MaxHigh = 200) =>
               [i \in 1..8 |-> gann_levels[i].e] =
                   << 900, 1000, 1100, 1200, 1300, 1400, 1500, 1600 >>

C8_Witness == pc = "gann" /\ series = ExampleGann /\ MinLow = 100 /\ MaxHigh = 200

\* C9 as stated: for every non-empty series, also one whose largest High
\* equals its smallest Low, each level is strictly greater than the one
\* before and the first is strictly above the smallest Low.
C9_StrictlyIncreasing ==
    (pc = "gann" /\ series # << >>) =>
        /\ FLess(Price(MinLow), gann_levels[1])
        /\ \A i \in 2..NumLevels : FLess(gann_levels[i - 1], gann_levels[i])

\* C9 amended: for every non-empty series the levels never decrease and the
\* first is not below the smallest Low; they increase strictly, the first
\* strictly above the smallest Low, when the largest High exceeds the
\* smallest Low; when the two are equal all 8 levels equal that price.
C9_NonDecreasing ==
    (pc = "gann" /\ series # << >>) =>
        /\ ~FLess(gann_levels[1], Price(MinLow))
        /\ \A i \in 2..NumLevels : ~gann_levels[i].nan /\ ~FLess(gann_levels[i], gann_levels[i - 1])
        /\ MaxHigh > MinLow =>
               /\ FLess(Price(MinLow), gann_levels[1])
               /\ \A i \in 2..NumLevels : FLess(gann_levels[i - 1], gann_levels[i])
        /\ MaxHigh = MinLow =>
               \A i \in 1..NumLevels : gann_levels[i] = Price(MinLow)

C9_Witness ==
    /\ pc = "gann" /\ Len(series) >= 2 /\ MaxHigh = MinLow
    /\ gann_levels[1] = gann_levels[NumLevels]

C10_PerKind(o, d, kind) ==
    IF o = "ok" /\ kind \in DOMAIN d THEN << o, d[kind] >> ELSE << o, << >> >>

\* C10: requesting two catalog kinds A and B together gives for A and for B
\* the same match list, or the same failure, as requesting each alone.
C10_NonInterference ==
    (pc = "detect" /\ Len(selected) = 2 /\ Range(selected) \subseteq Catalog) =>
        \A kind \in Range(selected) :
            LET alone == detect_patterns(series, << kind >>) IN
            C10_PerKind(outcome, patterns, kind) =
                C10_PerKind(alone.outcome, alone.patterns, kind)

\* The match lists of Head and Shoulders the state holds, after a first or
\* a repeated call.
C11_Lists ==
    (IF pc \in { "detect", "detect_again" } /\ outcome = "ok" /\ HS \in DOMAIN patterns
     THEN { patterns[HS] } ELSE {})
    \cup
    (IF pc \in { "main_detect", "main_detect_again" } /\ selected = << HS >>
     THEN { main_patterns } ELSE {})

\* The position of the bar with a timestamp.
C11_PositionOf(date) == CHOOSE i \in Positions : Index(series, i) = date

\* C11: the match list of one kind is in scan order with strictly
\* increasing anchor timestamps, no two matches share an index or a
\* timestamp, and detection run again on the unchanged series gives the
\* same list, without duplicates.
C11_ScanOrder ==
    /\ \A list \in C11_Lists :
          /\ \A j \in 1..Len(list) : \E i \in Positions : list[j][1] = Index(series, i)
          /\ \A j \in 2..Len(list) :
                /\ list[j - 1][1] < list[j][1]
                /\ C11_PositionOf(list[j - 1][1]) < C11_PositionOf(list[j][1])
          /\ \A j, k \in 1..Len(list) : j # k => list[j] # list[k]
    /\ pc = "detect_again" => outcome = previous.outcome /\ patterns = previous.patterns
    /\ pc = "main_detect_again" => main_patterns = previous.main_patterns

\* Two matches, and the call repeated.
C11_Witness ==
    /\ pc = "detect_again" /\ outcome = "ok" /\ selected = << HS >>
    /\ series = ExampleTwoHeads
    /\ Len(patterns[HS]) = 2
    /\ patterns[HS][1][1] = Index(series, 2) /\ patterns[HS][2][1] = Index(series, 5)

\* The rows of the matches of a dict, kind after kind in the order of the
\* request, for a ticker.
RECURSIVE C12_RowsOfDict(_, _, _, _)
C12_RowsOfDict(ticker, d, sel, j) ==
    IF j > Len(sel) THEN << >>
    ELSE (IF sel[j] \in DOMAIN d
          THEN [k \in 1..Len(d[sel[j]]) |->
                   << ticker, d[sel[j]][k][2], strftime(d[sel[j]][k][1]), d[sel[j]][k][3] >>]
          ELSE << >>)
         \o C12_RowsOfDict(ticker, d, sel, j + 1)

\* The rows of the detection result of a fetched ticker.
C12_RowsOf(ticker) ==
    IF pc = "export"
    THEN C12_RowsOfDict(ticker, detect_patterns(Market(ticker), selected).patterns,
                        selected, 1)
    ELSE LET found == main_detect_patterns(Market(ticker), selected[1]) IN
         [k \in 1..Len(found) |->
             << ticker, found[k][2], strftime(found[k][1]), found[k][3] >>]

RECURSIVE C12_Expected(_)
C12_Expected(j) ==
    IF j > Len(app.data) THEN << >>
    ELSE C12_RowsOf(app.data[j]) \o C12_Expected(j + 1)

\* C12: export_results writes the header row (Ticker, Pattern, Date, Price)
\* and then exactly one row per match of the detection result of each
\* fetched ticker: (ticker, label, anchor timestamp as ISO date, anchor
\* price), and no other row.
C12_ExportRows ==
    (pc \in { "export", "main_export" } /\ app.file_open) =>
        /\ app.header = << "Ticker", "Pattern", "Date", "Price" >>
        /\ app.rows = C12_Expected(1)

C13_NoSelection ==
    IF pc \in { "export", "analyze", "analysis" }
    THEN selected = << >>
    ELSE selected = << NoKind >>

C13_InputErrorShown ==
    \E j \in 1..Len(app.errors) : app.errors[j][1] = "Input Error"

\* C13: on every path through analyze_stock and export_results,
\* detect_patterns is called only after the ticker list and the pattern
\* selection were both found non-empty; when one of them is empty an input
\* error is shown and neither fetch nor detection is started.
C13_ValidatedBeforeDetect ==
    (pc \in { "export", "main_export", "analyze", "analysis",
              "main_analyze", "main_analysis" }) =>
        /\ app.calls # << >> => ~no_ticker(app.tickers) /\ ~C13_NoSelection
        /\ (no_ticker(app.tickers) \/ C13_NoSelection) =>
               /\ C13_InputErrorShown
               /\ ~app.fetch_started
               /\ app.calls = << >>
               /\ app.thread = "none"

====
